---- MODULE Spec2Model ----
(***************************************************************************)
(* Model of the chess position server of src/src/main.rs: the Walk         *)
(* iterator, the movement table, Piece::valid_moves, Board::step and the   *)
(* accept loop of main.                                                    *)
(***************************************************************************)
EXTENDS Integers, Sequences, FiniteSets, TLC

(***************************************************************************)
(* Values                                                                  *)
(***************************************************************************)

\* The board is 8 by 8 (the array type of Board).
N == 8

Coords == 0 .. (N - 1)

\* struct Location { x: u8, y: u8 }
Location == [x : Coords, y : Coords]

Loc(x, y) == [x |-> x, y |-> y]

Types == {"Pawn", "Bishop", "Knight", "Rook", "Queen", "King"}

Colors == {"White", "Black"}

\* Option<Piece>::None
NoPiece == [tpe |-> "None", color |-> "None"]

\* Piece::new
Piece(tpe, color) == [tpe |-> tpe, color |-> color]

Pieces == [tpe : Types, color : Colors]

\* board.0[loc.y as usize][loc.x as usize]
At(b, loc) == b[loc.y][loc.x]

(***************************************************************************)
(* Fixed-width arithmetic of the Walk iterator.  Every operation returns   *)
(* the wrapped value v and whether the exact result left the type (ovf):   *)
(* a debug build panics there, a release build continues with v.           *)
(***************************************************************************)

U8Max == 255

I8Max == 127

I8Min == -128

\* the value of an integer stored in a u8
WrapU8(n) == n % (U8Max + 1)

\* the value of an integer stored in an i8
WrapI8(n) == ((n - I8Min) % (U8Max + 1)) + I8Min

\* `e as u8` (a cast never panics)
AsU8(n) == WrapU8(n)

\* `e as i8`
AsI8(n) == WrapI8(n)

NegI8(a) == [v |-> WrapI8(0 - a), ovf |-> (0 - a) > I8Max]

AddU8(a, b) == [v |-> WrapU8(a + b), ovf |-> (a + b) > U8Max]

AddI8(a, b) == [v |-> WrapI8(a + b), ovf |-> (a + b) > I8Max \/ (a + b) < I8Min]

SubU8(a, b) == [v |-> WrapU8(a - b), ovf |-> (a - b) < 0]

(***************************************************************************)
(* WalkStrategy and Walk                                                   *)
(***************************************************************************)

\* WalkStrategy::new
WalkStrategy(dx, dy, max_steps) == [dx |-> dx, dy |-> dy, max_steps |-> max_steps]

\* WalkStrategy::to_walk
to_walk(s, start) == [dx |-> s.dx, dy |-> s.dy, steps_left |-> s.max_steps, cur |-> start]

\* The conditions of Walk::next, in the order the code tests them.
OffLeft(w) == w.dx < 0 /\ AsU8(NegI8(w.dx).v) > w.cur.x

\* OffRight with the comparison one too late
OffRightLate(w) == w.dx > 0 /\ AddU8(AsU8(w.dx), w.cur.x).v > N

OffRight(w) == w.dx > 0 /\ AddU8(AsU8(w.dx), w.cur.x).v >= N

OffDown(w) == w.dy < 0 /\ AsU8(NegI8(w.dy).v) > w.cur.y

OffUp(w) == w.dy > 0 /\ AddU8(AsU8(w.dy), w.cur.y).v >= N

\* Whether the arithmetic evaluated by one call of Walk::next leaves its type.
\* The tests short-circuit: a later one is evaluated only when the earlier
\* ones are false.
NextOverflows(w) ==
    IF w.steps_left = 0 THEN FALSE
    ELSE IF w.dx < 0 /\ NegI8(w.dx).ovf THEN TRUE
    ELSE IF OffLeft(w) THEN FALSE
    ELSE IF w.dx > 0 /\ AddU8(AsU8(w.dx), w.cur.x).ovf THEN TRUE
    ELSE IF OffRight(w) THEN FALSE
    ELSE IF w.dy < 0 /\ NegI8(w.dy).ovf THEN TRUE
    ELSE IF OffDown(w) THEN FALSE
    ELSE IF w.dy > 0 /\ AddU8(AsU8(w.dy), w.cur.y).ovf THEN TRUE
    ELSE IF OffUp(w) THEN FALSE
    ELSE \/ SubU8(w.steps_left, 1).ovf
         \/ AddI8(AsI8(w.cur.x), w.dx).ovf
         \/ AddI8(AsI8(w.cur.y), w.dy).ovf

\* Walk::next returns None
NextIsNone(w) ==
    \/ w.steps_left = 0
    \/ OffLeft(w)
    \/ OffRight(w)
    \/ OffDown(w)
    \/ OffUp(w)

\* The Walk after a call of Walk::next that returns Some(cur).
Advance(w) ==
    [w EXCEPT !.steps_left = SubU8(w.steps_left, 1).v,
              !.cur = [x |-> AsU8(AddI8(AsI8(w.cur.x), w.dx).v),
                       y |-> AsU8(AddI8(AsI8(w.cur.y), w.dy).v)]]

\* Walk::next: the iterator after the call (unchanged when None is returned).
Walk_next(w) == IF NextIsNone(w) THEN w ELSE Advance(w)

(***************************************************************************)
(* Movement table                                                          *)
(***************************************************************************)

\* strategies_pawn with a diagonal step added, as for a capture
strategies_pawnDiagonal(p, from) ==
    IF p.color = "White"
    THEN << WalkStrategy(0, 1, 1), WalkStrategy(1, 1, 1) >>
    ELSE << WalkStrategy(0, -1, 1), WalkStrategy(1, -1, 1) >>

\* Piece::strategies_pawn
strategies_pawn(p, from) ==
    IF p.color = "White"
    THEN IF from.y = 1 THEN << WalkStrategy(0, 1, 2) >> ELSE << WalkStrategy(0, 1, 1) >>
    ELSE IF from.y = 6 THEN << WalkStrategy(0, -1, 2) >> ELSE << WalkStrategy(0, -1, 1) >>

\* DiagonalRays with (1, -1) mistyped as a second (1, 1)
DiagonalRaysRepeated ==
    << WalkStrategy(-1, -1, 7), WalkStrategy(-1, 1, 7),
       WalkStrategy(1, 1, 7), WalkStrategy(1, 1, 7) >>

DiagonalRays ==
    << WalkStrategy(-1, -1, 7), WalkStrategy(-1, 1, 7),
       WalkStrategy(1, -1, 7), WalkStrategy(1, 1, 7) >>

\* KnightRays with (-2, 1) mistyped as a second (-2, -1)
KnightRaysRepeated ==
    << WalkStrategy(-2, -1, 1), WalkStrategy(-2, -1, 1),
       WalkStrategy(-1, -2, 1), WalkStrategy(-1, 2, 1),
       WalkStrategy(1, -2, 1), WalkStrategy(1, 2, 1),
       WalkStrategy(2, -1, 1), WalkStrategy(2, 1, 1) >>

KnightRays ==
    << WalkStrategy(-2, -1, 1), WalkStrategy(-2, 1, 1),
       WalkStrategy(-1, -2, 1), WalkStrategy(-1, 2, 1),
       WalkStrategy(1, -2, 1), WalkStrategy(1, 2, 1),
       WalkStrategy(2, -1, 1), WalkStrategy(2, 1, 1) >>

StraightRays ==
    << WalkStrategy(-1, 0, 7), WalkStrategy(0, -1, 7),
       WalkStrategy(0, 1, 7), WalkStrategy(1, 0, 7) >>

\* KingRays with the step count of the queen on its last ray
KingRaysSliding ==
    << WalkStrategy(-1, -1, 1), WalkStrategy(-1, 1, 1),
       WalkStrategy(1, -1, 1), WalkStrategy(1, 1, 1),
       WalkStrategy(-1, 0, 1), WalkStrategy(0, -1, 1),
       WalkStrategy(0, 1, 1), WalkStrategy(1, 0, 7) >>

KingRays ==
    << WalkStrategy(-1, -1, 1), WalkStrategy(-1, 1, 1),
       WalkStrategy(1, -1, 1), WalkStrategy(1, 1, 1),
       WalkStrategy(-1, 0, 1), WalkStrategy(0, -1, 1),
       WalkStrategy(0, 1, 1), WalkStrategy(1, 0, 1) >>

\* the match on self.tpe at the head of Piece::valid_moves
strategies(p, from) ==
    CASE p.tpe = "Pawn" -> strategies_pawn(p, from)
      [] p.tpe = "Bishop" -> DiagonalRays
      [] p.tpe = "Knight" -> KnightRays
      [] p.tpe = "Rook" -> StraightRays
      [] p.tpe = "Queen" -> DiagonalRays \o StraightRays
      [] p.tpe = "King" -> KingRays

(***************************************************************************)
(* Piece::valid_moves                                                      *)
(***************************************************************************)

\* The test that ends the inner loop: the square holds a piece of the
\* mover's colour.
Blocked(p, b, dest) == At(b, dest) # NoPiece /\ At(b, dest).color = p.color

\* WalkMoves with `continue` where the code has `break`
RECURSIVE WalkMovesContinue(_, _, _)
WalkMovesContinue(p, b, w) ==
    IF NextIsNone(w) THEN << >>
    ELSE LET w2 == Advance(w)
         IN IF Blocked(p, b, w2.cur) THEN WalkMovesContinue(p, b, w2)
            ELSE << w2.cur >> \o WalkMovesContinue(p, b, w2)

\* The inner loop `for dest in walk`: the destinations one walk pushes.
RECURSIVE WalkMoves(_, _, _)
WalkMoves(p, b, w) ==
    IF NextIsNone(w) THEN << >>
    ELSE LET w2 == Advance(w)
         IN IF Blocked(p, b, w2.cur) THEN << >>
            ELSE << w2.cur >> \o WalkMoves(p, b, w2)

\* The outer loop `for strategy in strategies`.
RECURSIVE MovesOf(_, _, _, _)
MovesOf(p, b, from, ss) ==
    IF ss = << >> THEN << >>
    ELSE WalkMoves(p, b, to_walk(Head(ss), from)) \o MovesOf(p, b, from, Tail(ss))

\* Piece::valid_moves: the Vec of destinations, in the order pushed.
valid_moves(p, b, from) == MovesOf(p, b, from, strategies(p, from))

Range(s) == {s[i] : i \in DOMAIN s}

(***************************************************************************)
(* Board                                                                   *)
(***************************************************************************)

BackRow == << "Rook", "Knight", "Bishop", "Queen", "King", "Bishop", "Knight", "Rook" >>

\* Board::new
Board_new ==
    [y \in Coords |->
        [x \in Coords |->
            CASE y = 0 -> Piece(BackRow[x + 1], "White")
              [] y = 1 -> Piece("Pawn", "White")
              [] y = 6 -> Piece("Pawn", "Black")
              [] y = 7 -> Piece(BackRow[x + 1], "Black")
              [] OTHER -> NoPiece]]

\* StepCheck with `all` where the code has `any`
StepCheckAll(b, from, to) ==
    IF At(b, from) = NoPiece THEN "EmptySource"
    ELSE IF \A d \in Range(valid_moves(At(b, from), b, from)) : d = to THEN "Ok"
    ELSE "IllegalDestination"

\* StepCheck with a destination that holds a king refused
StepCheckSparesKing(b, from, to) ==
    IF At(b, from) = NoPiece THEN "EmptySource"
    ELSE IF to \in Range(valid_moves(At(b, from), b, from)) /\ At(b, to).tpe # "King" THEN "Ok"
    ELSE "IllegalDestination"

\* The outcome of the two checks of Board::step.
StepCheck(b, from, to) ==
    IF At(b, from) = NoPiece THEN "EmptySource"
    ELSE IF to \in Range(valid_moves(At(b, from), b, from)) THEN "Ok"
    ELSE "IllegalDestination"

\* ClearFrom without the assignment
ClearFromKeeps(b, from) == b

\* self.0[from.y][from.x] = None
ClearFrom(b, from) == [b EXCEPT ![from.y][from.x] = NoPiece]

\* self.0[to.y][to.x] = Some(piece)
PlaceTo(b, to, p) == [b EXCEPT ![to.y][to.x] = p]

\* step with the source cleared before the destination is tested
stepClearsFirst(b, from, to) ==
    LET r == StepCheck(b, from, to)
    IN [res |-> r,
        board |-> IF r = "Ok" THEN PlaceTo(ClearFrom(b, from), to, At(b, from))
                  ELSE IF r = "IllegalDestination" THEN ClearFrom(b, from)
                  ELSE b]

\* step with the first assignment left out
stepKeepsSource(b, from, to) ==
    LET r == StepCheck(b, from, to)
    IN [res |-> r,
        board |-> IF r = "Ok" THEN PlaceTo(b, to, At(b, from)) ELSE b]

\* Board::step: the result and the board the call leaves.
step(b, from, to) ==
    LET r == StepCheck(b, from, to)
    IN [res |-> r,
        board |-> IF r = "Ok" THEN PlaceTo(ClearFrom(b, from), to, At(b, from)) ELSE b]

(***************************************************************************)
(* State                                                                   *)
(***************************************************************************)

VARIABLES
    board,      \* the one Board of main
    prev,       \* the board as the last call of Board::step found it
    call,       \* the last call of Board::step: its arguments and its result
    sel,        \* the square whose piece valid_moves is called for
    vm,         \* the Vec valid_moves returned
    phase,      \* "drawn" before the drawn inputs are used, "applied" after; "serving" in Spec, "game" in SpecGame
    strat,      \* the WalkStrategy a walk was made from
    start,      \* the Location a walk was made from
    walk,       \* the Walk iterator
    yielded,    \* the coordinates the walk has returned so far
    ended,      \* the walk has returned None
    ovf,        \* an arithmetic operation of the walk left its type
    pc,         \* where each thread of the server stands
    path,       \* the local `path` of main: the path of the request a thread read last
    req,        \* the (from, to) of the /move request a thread is handling
    piece,      \* the local `piece` of Board::step
    err,        \* the error message a thread is about to send
    resp,       \* the last response a thread wrote
    pending,    \* connections made and not yet accepted
    served,     \* connections accepted so far
    committed   \* the boards left by Board::new and by each complete Board::step

coreVars == << board, prev, call, sel, vm >>

serverVars == << pc, path, req, piece, err, resp, pending, served, committed >>

walkVars == << strat, start, walk, yielded, ended, ovf >>

vars ==
    << board, prev, call, sel, vm, phase, strat, start, walk, yielded, ended, ovf,
       pc, path, req, piece, err, resp, pending, served, committed >>

\* Threads with a second thread running the loop
ThreadsSpawned == {"main", "worker"}

\* The threads that run the accept loop: main alone, which spawns nothing.
Threads == {"main"}

NoResponse == [status |-> 0, squares |-> << >>, message |-> ""]

ServerIdle ==
    /\ pc = [t \in Threads |-> "accept"]
    /\ path = [t \in Threads |-> ""]
    /\ req = [t \in Threads |-> [from |-> Loc(0, 0), to |-> Loc(0, 0)]]
    /\ piece = [t \in Threads |-> NoPiece]
    /\ err = [t \in Threads |-> ""]
    /\ resp = [t \in Threads |-> NoResponse]
    /\ pending = 0
    /\ served = 0
    /\ committed = {Board_new}

NoCall == [from |-> Loc(0, 0), to |-> Loc(0, 0), res |-> "none"]

NoWalk == to_walk(WalkStrategy(0, 0, 0), Loc(0, 0))

CoreIdle ==
    /\ board = Board_new
    /\ prev = Board_new
    /\ call = NoCall
    /\ sel = Loc(0, 0)
    /\ vm = << >>

WalkIdle ==
    /\ strat = WalkStrategy(0, 0, 0)
    /\ start = Loc(0, 0)
    /\ walk = NoWalk
    /\ yielded = << >>
    /\ ended = FALSE
    /\ ovf = FALSE

(***************************************************************************)
(* SpecWalk: the Walk iterator on every origin, step vector and step count *)
(***************************************************************************)

\* the largest |dx|, |dy| drawn
MaxDelta == 2

\* the largest max_steps drawn
MaxSteps == 7

Deltas == (0 - MaxDelta) .. MaxDelta

InitWalk ==
    /\ CoreIdle
    /\ ServerIdle
    /\ phase = "drawn"
    /\ start \in Location
    /\ strat \in {WalkStrategy(dx, dy, n) : dx \in Deltas, dy \in Deltas, n \in 0 .. MaxSteps}
    /\ strat.dx # 0 \/ strat.dy # 0
    /\ walk = to_walk(strat, start)
    /\ yielded = << >>
    /\ ended = FALSE
    /\ ovf = FALSE

\* One call of Walk::next by the `for dest in walk` loop, which stops calling
\* at the first None.
WalkNext ==
    /\ ~ended
    /\ walk' = Walk_next(walk)
    /\ ended' = NextIsNone(walk)
    /\ yielded' = IF NextIsNone(walk) THEN yielded ELSE Append(yielded, Walk_next(walk).cur)
    /\ ovf' = (ovf \/ NextOverflows(walk))
    /\ phase' = "applied"
    /\ UNCHANGED << strat, start >>
    /\ UNCHANGED coreVars
    /\ UNCHANGED serverVars

NextWalk == WalkNext

SpecWalk == InitWalk /\ [][NextWalk]_vars

\* the k-th coordinate of the claim, in unbounded integers
Ideal(k) == [x |-> start.x + k * strat.dx, y |-> start.y + k * strat.dy]

InGrid(l) == l.x \in Coords /\ l.y \in Coords

\* C9: the walk yields at most max_steps coordinates, the k-th being
\* origin + k*(dx, dy); each is on the grid; the walk ends only when
\* max_steps were yielded or the next step would leave the grid; and no
\* operation overflows or wraps.
C9_WalkContract ==
    /\ Len(yielded) <= strat.max_steps
    /\ \A k \in 1 .. Len(yielded) : yielded[k] = Ideal(k) /\ InGrid(yielded[k])
    /\ ended => (Len(yielded) = strat.max_steps \/ ~InGrid(Ideal(Len(yielded) + 1)))
    /\ ~ovf

\* a knight-shaped or sliding walk that the edge ended after two or more steps
C9_Witness ==
    /\ ended
    /\ Len(yielded) >= 2
    /\ Len(yielded) < strat.max_steps
    /\ strat.dx < 0
    /\ strat.dy > 0

(***************************************************************************)
(* SpecStep: one call of Board::step, on every pair of squares, on the     *)
(* initial board and on the boards that hold one piece on d4 and one on g7 *)
(***************************************************************************)

EmptyBoard == [y \in Coords |-> [x \in Coords |-> NoPiece]]

D4 == Loc(3, 3)

G7 == Loc(6, 6)

\* the pieces drawn for g7
StepOthers == [tpe : {"Queen", "Pawn"}, color : Colors]

StepBoards ==
    {Board_new} \cup
    {PlaceTo(PlaceTo(EmptyBoard, D4, p), G7, q) : p \in Pieces, q \in StepOthers}

InitStep ==
    /\ WalkIdle
    /\ ServerIdle
    /\ phase = "drawn"
    /\ board \in StepBoards
    /\ prev = board
    /\ call = NoCall
    /\ sel = Loc(0, 0)
    /\ vm = << >>

\* board.step(from, to)
Step(from, to) ==
    /\ prev' = board
    /\ LET r == step(board, from, to)
       IN /\ call' = [from |-> from, to |-> to, res |-> r.res]
          /\ board' = r.board
    /\ phase' = "applied"
    /\ UNCHANGED << sel, vm >>
    /\ UNCHANGED walkVars
    /\ UNCHANGED serverVars

\* one call per drawn board
NextStep == phase = "drawn" /\ \E from \in Location, to \in Location : Step(from, to)

SpecStep == InitStep /\ [][NextStep]_vars

Stepped == phase = "applied" /\ call.res # "none"

\* C1: a call of Board::step that returns an error leaves every cell of the
\* board as it was before the call.
C1_RejectedLeavesBoard ==
    (Stepped /\ call.res # "Ok") => \A l \in Location : At(board, l) = At(prev, l)

\* the scenario of the specification: a1 to a2 on the initial board
C1_Witness ==
    /\ Stepped
    /\ prev = Board_new
    /\ call.from = Loc(0, 0)
    /\ call.to = Loc(0, 1)
    /\ call.res = "IllegalDestination"

\* C2: after a call of Board::step that succeeds, from is empty, to holds the
\* piece that stood on from, to is another square than from, and the other 62
\* cells are unchanged.
C2_AcceptedMovesOnePiece ==
    (Stepped /\ call.res = "Ok") =>
        /\ call.to # call.from
        /\ At(prev, call.from) \in Pieces
        /\ At(board, call.from) = NoPiece
        /\ At(board, call.to) = At(prev, call.from)
        /\ \A l \in Location \ {call.from, call.to} : At(board, l) = At(prev, l)

\* an accepted capture
C2_Witness ==
    /\ Stepped
    /\ call.res = "Ok"
    /\ At(prev, call.to) \in Pieces

\* C3: the call fails with the empty-source error exactly when from is empty;
\* otherwise with the illegal-destination error exactly when to is not among
\* the destinations computed for the piece on from; otherwise it succeeds.
C3_Classification ==
    Stepped =>
        LET p == At(prev, call.from)
        IN /\ (call.res = "EmptySource") <=> (p = NoPiece)
           /\ p # NoPiece =>
                /\ (call.res = "IllegalDestination") <=>
                       (call.to \notin Range(valid_moves(p, prev, call.from)))
                /\ (call.res = "Ok") <=>
                       (call.to \in Range(valid_moves(p, prev, call.from)))
           /\ call.res \in {"EmptySource", "IllegalDestination", "Ok"}

\* an empty square in reach of nothing is refused for a piece that stands on from
C3_Witness ==
    /\ Stepped
    /\ call.res = "IllegalDestination"
    /\ At(prev, call.from) \in Pieces
    /\ At(prev, call.to) = NoPiece

(***************************************************************************)
(* SpecMoves: one call of Piece::valid_moves, for a piece of every type    *)
(* and colour on every square, on boards that hold up to MaxOthers other   *)
(* pieces, all of them on one half-line from the mover's square.  With one *)
(* other piece that is every other square of the board.                    *)
(***************************************************************************)

\* the largest number of pieces drawn besides the mover
MaxOthers == 1

\* the pieces drawn besides the mover: knights, which can stand on any square
OtherPieces == [tpe : {"Knight"}, color : Colors]

RECURSIVE Gcd(_, _)
Gcd(a, b) == IF b = 0 THEN a ELSE Gcd(b, a % b)

Dist(a, b) == IF a < b THEN b - a ELSE a - b

\* l is the square nearest to s on its half-line from s
Nearest(s, l) == l # s /\ Gcd(Dist(l.x, s.x), Dist(l.y, s.y)) = 1

\* the squares of the half-line from s through l
HalfLine(s, l) ==
    {q \in {[x |-> s.x + m * (l.x - s.x), y |-> s.y + m * (l.y - s.y)] : m \in 1 .. (N - 1)} :
        q.x \in Coords /\ q.y \in Coords}

\* the board b with the pieces others added on their squares
RECURSIVE PlaceOthers(_, _)
PlaceOthers(b, others) ==
    IF DOMAIN others = {} THEN b
    ELSE LET l == CHOOSE q \in DOMAIN others : TRUE
         IN PlaceOthers(PlaceTo(b, l, others[l]), [q \in DOMAIN others \ {l} |-> others[q]])

\* the board that holds p on s and the pieces others on their squares
BoardOf(s, p, others) == PlaceOthers(PlaceTo(EmptyBoard, s, p), others)

\* No pawn stands on the back rank of its own colour: pawns start one rank
\* ahead of it and only move forward.
PawnCanStand(p, l) ==
    p.tpe = "Pawn" => (IF p.color = "White" THEN l.y # 0 ELSE l.y # N - 1)

InitMoves ==
    /\ WalkIdle
    /\ ServerIdle
    /\ phase = "drawn"
    /\ call = NoCall
    /\ vm = << >>
    /\ sel \in Location
    /\ \E p \in Pieces :
          /\ PawnCanStand(p, sel)
          /\ \/ board = BoardOf(sel, p, << >>)
             \/ \E l \in Location :
                   /\ Nearest(sel, l)
                   /\ \E S \in SUBSET HalfLine(sel, l) :
                         /\ Cardinality(S) \in 1 .. MaxOthers
                         /\ \E others \in [S -> OtherPieces] : board = BoardOf(sel, p, others)
    /\ prev = board

\* piece.valid_moves(board, from), for the piece on sel
ValidMoves ==
    /\ phase = "drawn"
    /\ vm' = valid_moves(At(board, sel), board, sel)
    /\ phase' = "applied"
    /\ UNCHANGED << board, prev, call, sel >>
    /\ UNCHANGED walkVars
    /\ UNCHANGED serverVars

NextMoves == ValidMoves

SpecMoves == InitMoves /\ [][NextMoves]_vars

Computed == phase = "applied"

Mover == At(board, sel)

Dests == Range(vm)

Occupied(l) == At(board, l) # NoPiece

Own(l) == Occupied(l) /\ At(board, l).color = Mover.color

\* the board holds the mover and nothing else
Alone == \A l \in Location \ {sel} : ~Occupied(l)

\* the k-th square of the ray of strategy s from sel, in unbounded integers
RaySquare(s, k) == [x |-> sel.x + k * s.dx, y |-> sel.y + k * s.dy]

Rays == Range(strategies(Mover, sel))

Abs(n) == IF n < 0 THEN 0 - n ELSE n

Max(a, b) == IF a > b THEN a ELSE b

Chebyshev(a, b) == Max(Abs(a.x - b.x), Abs(a.y - b.y))

Interior(l) == l.x \in 1 .. (N - 2) /\ l.y \in 1 .. (N - 2)

Corner(l) == l.x \in {0, N - 1} /\ l.y \in {0, N - 1}

\* C5: the destinations hold no piece of the mover's colour and no square
\* that lies beyond a piece of the mover's colour on a ray of the mover; and
\* Board::step accepts no move onto a piece of the mover's colour.
C5_OwnPiecesBlock ==
    Computed =>
        /\ \A d \in Dests : ~Own(d)
        /\ \A s \in Rays : \A j \in 1 .. s.max_steps :
              (InGrid(RaySquare(s, j)) /\ Own(RaySquare(s, j))) =>
                  \A k \in j .. s.max_steps :
                      InGrid(RaySquare(s, k)) => RaySquare(s, k) \notin Dests
        /\ \A l \in Location : Own(l) /\ l # sel => StepCheck(board, sel, l) # "Ok"

\* a sliding piece with a piece of its colour two or more squares along a
\* ray, and squares behind that piece
C5_Witness ==
    /\ Computed
    /\ Mover.tpe \in {"Rook", "Bishop", "Queen"}
    /\ \E s \in Rays : \E j \in 2 .. (N - 2) :
          /\ InGrid(RaySquare(s, j + 1))
          /\ Own(RaySquare(s, j))
          /\ RaySquare(s, j - 1) \in Dests

\* C7 as amended: alone on the board, a knight has exactly 8 destinations
\* from every square whose file and rank are both in 2..5, and exactly 2 from
\* each corner.
C7_KnightCounts ==
    (Computed /\ Mover.tpe = "Knight" /\ Alone) =>
        /\ (sel.x \in 2 .. (N - 3) /\ sel.y \in 2 .. (N - 3)) => Cardinality(Dests) = 8
        /\ Corner(sel) => Cardinality(Dests) = 2

\* C7 as claimed: alone on the board, a knight has exactly 8 destinations
\* from every square whose file and rank are both in 1..6, and exactly 2 from
\* each corner.
C7_AsClaimed ==
    (Computed /\ Mover.tpe = "Knight" /\ Alone) =>
        /\ Interior(sel) => Cardinality(Dests) = 8
        /\ Corner(sel) => Cardinality(Dests) = 2

\* a lone knight on c3 with its destinations computed
C7_Witness ==
    /\ Computed
    /\ Mover.tpe = "Knight"
    /\ Alone
    /\ sel = Loc(2, 2)
    /\ Cardinality(Dests) = 8

\* C8: alone on the board, a king has exactly 8 destinations from every
\* square whose file and rank are both in 1..6; and on every board every
\* destination of a king is at Chebyshev distance 1 from the king.
C8_KingMoves ==
    (Computed /\ Mover.tpe = "King") =>
        /\ (Interior(sel) /\ Alone) => Cardinality(Dests) = 8
        /\ \A d \in Dests : Chebyshev(d, sel) = 1

\* a lone king on b2 with its destinations computed
C8_Witness ==
    /\ Computed
    /\ Mover.tpe = "King"
    /\ Alone
    /\ sel = Loc(1, 1)
    /\ Cardinality(Dests) = 8

(***************************************************************************)
(* Serialisation and parsing                                               *)
(***************************************************************************)

FileLetters == << "a", "b", "c", "d", "e", "f", "g", "h" >>

RankDigits == << "1", "2", "3", "4", "5", "6", "7", "8" >>

\* Location::to_string, called for squares of the grid only
Location_to_string(l) == FileLetters[l.x + 1] \o RankDigits[l.y + 1]

\* cell_as_str
cell_as_str(cell) ==
    IF cell = NoPiece THEN ""
    ELSE (IF cell.color = "White" THEN "w" ELSE "b") \o
         (CASE cell.tpe = "Pawn" -> "P"
            [] cell.tpe = "Bishop" -> "B"
            [] cell.tpe = "Knight" -> "N"
            [] cell.tpe = "Rook" -> "R"
            [] cell.tpe = "Queen" -> "Q"
            [] cell.tpe = "King" -> "K")

\* board_as_str with the two loop indices exchanged
board_as_strByFile(b) == [n \in 1 .. (N * N) |-> cell_as_str(b[(n - 1) % N][(n - 1) \div N])]

\* board_as_str: the cells it joins with ",", in the order it pushes them
board_as_str(b) == [n \in 1 .. (N * N) |-> cell_as_str(b[(n - 1) \div N][(n - 1) % N])]

\* s.parse::<u8>() succeeds
ParsesAsU8(i) == i \in 0 .. U8Max

\* location_from_string, for an argument that parses
location_from_string(i) == [x |-> i % N, y |-> i \div N]

(***************************************************************************)
(* Spec: the server.  Clients connect at any time; the accept loop of main *)
(* takes one connection at a time, reads its request and answers it.       *)
(***************************************************************************)

\* the largest number of connections waiting to be accepted
MaxPending == 1

\* the number of connections the server accepts
MaxRequests == 3

\* The values drawn for the from and to arguments: a1, e1, a2, a3, a4, b4,
\* e5, e7, f8, then 64 (a u8 off the board) and 256 (no u8).
ArgValues == {0, 4, 8, 16, 24, 25, 36, 52, 61, 64, 256}

Requests ==
    {[path |-> q, from |-> 0, to |-> 0] : q \in {"/game", "/other"}} \cup
    {[path |-> "/move", from |-> a, to |-> b] : a \in ArgValues, b \in ArgValues}

\* a panic of the main thread ends the process
Panicked == \E t \in Threads : pc[t] = "panicked"

\* A client connects; the listener queues the connection.
Connect ==
    /\ ~Panicked
    /\ pending < MaxPending
    /\ pending' = pending + 1
    /\ UNCHANGED << pc, path, req, piece, err, resp, served, committed >>
    /\ UNCHANGED coreVars
    /\ UNCHANGED << phase >>
    /\ UNCHANGED walkVars

\* listener.incoming() yields a connection; get_path reads its request r;
\* main dispatches on the path, and get_from_to parses the arguments of /move.
Accept(t, r) ==
    /\ ~Panicked
    /\ pc[t] = "accept"
    /\ pending > 0
    /\ served < MaxRequests
    /\ pending' = pending - 1
    /\ served' = served + 1
    /\ path' = [path EXCEPT ![t] = r.path]
    /\ IF r.path = "/game"
       THEN /\ pc' = [pc EXCEPT ![t] = "write_board"]
            /\ UNCHANGED << req, err >>
       ELSE IF r.path = "/move"
       THEN IF ParsesAsU8(r.from) /\ ParsesAsU8(r.to)
            THEN /\ req' = [req EXCEPT ![t] = [from |-> location_from_string(r.from),
                                               to |-> location_from_string(r.to)]]
                 /\ pc' = [pc EXCEPT ![t] = "step"]
                 /\ UNCHANGED err
            ELSE /\ pc' = [pc EXCEPT ![t] = "panicked"]
                 /\ UNCHANGED << req, err >>
       ELSE /\ err' = [err EXCEPT ![t] = "Unknown path"]
            /\ pc' = [pc EXCEPT ![t] = "write_err"]
            /\ UNCHANGED req
    /\ UNCHANGED << piece, resp, committed >>
    /\ UNCHANGED coreVars
    /\ UNCHANGED << phase >>
    /\ UNCHANGED walkVars

\* Board::step up to its second `?`: the lookup of from (which panics when
\* from.y is no index of the array) and the test of to.
StepValidate(t) ==
    /\ ~Panicked
    /\ pc[t] = "step"
    /\ IF ~InGrid(req[t].from)
       THEN /\ pc' = [pc EXCEPT ![t] = "panicked"]
            /\ UNCHANGED << piece, err >>
       ELSE LET r == StepCheck(board, req[t].from, req[t].to)
            IN IF r = "Ok"
               THEN /\ piece' = [piece EXCEPT ![t] = At(board, req[t].from)]
                    /\ pc' = [pc EXCEPT ![t] = "clear"]
                    /\ UNCHANGED err
               ELSE /\ err' = [err EXCEPT ![t] =
                                 IF r = "EmptySource"
                                 THEN "No piece at " \o Location_to_string(req[t].from)
                                 ELSE "Invalid move"]
                    /\ pc' = [pc EXCEPT ![t] = "write_err"]
                    /\ UNCHANGED piece
    /\ UNCHANGED << path, req, resp, pending, served, committed >>
    /\ UNCHANGED coreVars
    /\ UNCHANGED << phase >>
    /\ UNCHANGED walkVars

\* Board::step: self.0[from.y][from.x] = None
StepClear(t) ==
    /\ ~Panicked
    /\ pc[t] = "clear"
    /\ board' = ClearFrom(board, req[t].from)
    /\ pc' = [pc EXCEPT ![t] = "place"]
    /\ UNCHANGED << path, req, piece, err, resp, pending, served, committed >>
    /\ UNCHANGED << prev, call, sel, vm, phase >>
    /\ UNCHANGED walkVars

\* Board::step: self.0[to.y][to.x] = Some(piece), and the return of Ok
StepPlace(t) ==
    /\ ~Panicked
    /\ pc[t] = "place"
    /\ board' = PlaceTo(board, req[t].to, piece[t])
    /\ committed' = committed \cup {board'}
    /\ pc' = [pc EXCEPT ![t] = "write_board"]
    /\ UNCHANGED << path, req, piece, err, resp, pending, served >>
    /\ UNCHANGED << prev, call, sel, vm, phase >>
    /\ UNCHANGED walkVars

\* WriteBoard with a new game set up once the board is written
WriteBoardNewGame(t) ==
    /\ ~Panicked
    /\ pc[t] = "write_board"
    /\ resp' = [resp EXCEPT ![t] =
                  [status |-> 200, squares |-> board_as_str(board), message |-> ""]]
    /\ pc' = [pc EXCEPT ![t] = "accept"]
    /\ board' = Board_new
    /\ UNCHANGED << path, req, piece, err, pending, served, committed >>
    /\ UNCHANGED << prev, call, sel, vm, phase >>
    /\ UNCHANGED walkVars

\* write_board and the flush that ends the iteration
WriteBoard(t) ==
    /\ ~Panicked
    /\ pc[t] = "write_board"
    /\ resp' = [resp EXCEPT ![t] =
                  [status |-> 200, squares |-> board_as_str(board), message |-> ""]]
    /\ pc' = [pc EXCEPT ![t] = "accept"]
    /\ UNCHANGED << path, req, piece, err, pending, served, committed >>
    /\ UNCHANGED coreVars
    /\ UNCHANGED << phase >>
    /\ UNCHANGED walkVars

\* WriteErr with the process ending once the error is written
WriteErrExits(t) ==
    /\ ~Panicked
    /\ pc[t] = "write_err"
    /\ resp' = [resp EXCEPT ![t] = [status |-> 400, squares |-> << >>, message |-> err[t]]]
    /\ pc' = [pc EXCEPT ![t] = "panicked"]
    /\ UNCHANGED << path, req, piece, err, pending, served, committed >>
    /\ UNCHANGED coreVars
    /\ UNCHANGED << phase >>
    /\ UNCHANGED walkVars

\* write_err and the flush that ends the iteration
WriteErr(t) ==
    /\ ~Panicked
    /\ pc[t] = "write_err"
    /\ resp' = [resp EXCEPT ![t] = [status |-> 400, squares |-> << >>, message |-> err[t]]]
    /\ pc' = [pc EXCEPT ![t] = "accept"]
    /\ UNCHANGED << path, req, piece, err, pending, served, committed >>
    /\ UNCHANGED coreVars
    /\ UNCHANGED << phase >>
    /\ UNCHANGED walkVars

Init ==
    /\ CoreIdle
    /\ WalkIdle
    /\ ServerIdle
    /\ phase = "serving"

Next ==
    \/ Connect
    \/ \E t \in Threads : \E r \in Requests : Accept(t, r)
    \/ \E t \in Threads : StepValidate(t)
    \/ \E t \in Threads : StepClear(t)
    \/ \E t \in Threads : StepPlace(t)
    \/ \E t \in Threads : WriteBoard(t)
    \/ \E t \in Threads : WriteErr(t)

Spec == Init /\ [][Next]_vars

\* the threads between the first assignment of Board::step and its return
Committing == {t \in Threads : pc[t] \in {"clear", "place"}}

\* the threads that hold a request they have not answered yet
Handling == {t \in Threads : pc[t] \notin {"accept", "panicked"}}

\* C10: no two threads are inside the validate-then-commit sequence of
\* Board::step at once; every board a response carries is the board as
\* Board::new or a complete Board::step left it; and at most one request is
\* being handled at any time.
C10_OneRequestAtATime ==
    /\ Cardinality(Committing) <= 1
    /\ \A t \in Threads :
          resp[t].status = 200 => \E b \in committed : resp[t].squares = board_as_str(b)
    /\ Cardinality(Handling) <= 1

\* a client has connected and waits while a step has cleared its source and
\* not yet written its destination, after an earlier move was answered with
\* a board
C10_Witness ==
    /\ pending = 1
    /\ \E t \in Threads : pc[t] = "place" /\ resp[t].status = 200
    /\ Cardinality(committed) = 2

\* no thread is between the two assignments of Board::step
AtRest == Committing = {}

\* the k-th square of the ray of strategy s from l, in unbounded integers
RayFrom(l, s, k) == [x |-> l.x + k * s.dx, y |-> l.y + k * s.dy]

\* the j-th square of the ray of s from l is the first that holds a piece
FirstOccupied(l, s, j) ==
    /\ InGrid(RayFrom(l, s, j))
    /\ At(board, RayFrom(l, s, j)) \in Pieces
    /\ \A i \in 1 .. (j - 1) : At(board, RayFrom(l, s, i)) = NoPiece

\* C4 as claimed: the destinations of a rook, bishop or queen hold no square
\* beyond the first occupied square of a ray, and hold that square when its
\* piece is of the other colour.
C4_AsClaimed ==
    AtRest =>
        \A l \in Location :
            At(board, l).tpe \in {"Rook", "Bishop", "Queen"} =>
                LET p == At(board, l)
                    dests == Range(valid_moves(p, board, l))
                IN \A s \in Range(strategies(p, l)) : \A j \in 1 .. s.max_steps :
                      FirstOccupied(l, s, j) =>
                          /\ \A k \in (j + 1) .. s.max_steps :
                                RayFrom(l, s, k) \notin dests
                          /\ At(board, RayFrom(l, s, j)).color # p.color
                                => RayFrom(l, s, j) \in dests

\* C6 as claimed: a white pawn on rank 1 has exactly the two squares ahead of
\* it as destinations when both are empty and no destination when the square
\* ahead of it is occupied; and the first request being the move 8 -> 24, it
\* is accepted and leaves a2 empty and a white pawn on a4.
C6_AsClaimed ==
    /\ AtRest =>
          \A x \in Coords :
              At(board, Loc(x, 1)) = Piece("Pawn", "White") =>
                  LET moves == valid_moves(Piece("Pawn", "White"), board, Loc(x, 1))
                  IN /\ (At(board, Loc(x, 2)) = NoPiece /\ At(board, Loc(x, 3)) = NoPiece)
                           => (Len(moves) = 2 /\ Range(moves) = {Loc(x, 2), Loc(x, 3)})
                     /\ At(board, Loc(x, 2)) \in Pieces => Len(moves) = 0
    /\ \A t \in Threads :
          (served = 1 /\ req[t] = [from |-> Loc(0, 1), to |-> Loc(0, 3)]) =>
              /\ pc[t] # "write_err"
              /\ pc[t] = "write_board" =>
                    /\ At(board, Loc(0, 1)) = NoPiece
                    /\ At(board, Loc(0, 3)) = Piece("Pawn", "White")

\* C11 as claimed: Board::step is never called with a Location whose file or
\* rank is outside 0..7, and no request ends the server instead of being
\* rejected.
C11_AsClaimed ==
    \A t \in Threads :
        /\ pc[t] = "step" => (InGrid(req[t].from) /\ InGrid(req[t].to))
        /\ pc[t] # "panicked"

(***************************************************************************)
(* SpecLive: the server, with the progress its one thread makes.  The body *)
(* of the loop of main is straight-line code: once Board::step has tested  *)
(* a move, the thread takes each remaining step of its handler.  Nothing   *)
(* is assumed of the clients.                                              *)
(***************************************************************************)

Progress ==
    \A t \in Threads :
        /\ WF_vars(StepClear(t))
        /\ WF_vars(StepPlace(t))
        /\ WF_vars(WriteBoard(t))
        /\ WF_vars(WriteErr(t))

SpecLive == Init /\ [][Next]_vars /\ Progress

\* the message Board::step returns for a call it rejects
StepError(b, from, to) ==
    IF At(b, from) = NoPiece THEN "No piece at " \o Location_to_string(from)
    ELSE "Invalid move"

\* thread t leaves Board::step through one of its two `?`
Rejects(t) == pc[t] = "step" /\ pc'[t] = "write_err"

\* thread t writes the answer to a /move request that Board::step rejected
AnswersRejected(t) == pc[t] = "write_err" /\ path[t] = "/move" /\ pc'[t] # "write_err"

\* thread t holds a request it has tested and not yet answered
Busy(t) == pc[t] \in {"clear", "place", "write_board", "write_err"}

Assigns(t) ==
    \/ pc[t] = "clear" /\ pc'[t] = "place"
    \/ pc[t] = "place" /\ pc'[t] = "write_board"

\* thread t takes a step of the handling of a /game request, of a request
\* for an unknown path, or of a /move request that Board::step rejects
ReadOnlyStep(t) ==
    \/ pc[t] = "accept" /\ pc'[t] # "accept"
    \/ pc[t] \in {"write_board", "write_err"} /\ path[t] # "/move" /\ pc'[t] # pc[t]
    \/ pc[t] = "step" /\ pc'[t] \in {"write_err", "panicked"}
    \/ pc[t] = "write_err" /\ path[t] = "/move" /\ pc'[t] # pc[t]

\* thread t answers a /game request, its last answer having been a board
AnswersGameAgain(t) ==
    /\ pc[t] = "write_board"
    /\ path[t] = "/game"
    /\ resp[t].status = 200
    /\ pc'[t] = "accept"

\* C13: the board changes only in the two assignments of Board::step; the
\* handling of a /game request, of a request for an unknown path and of a
\* rejected /move request leaves every cell as it was; and a /game request
\* that follows an answer carrying the board, with no accepted move between
\* them, is answered with the same 64 entries.
C13_OnlyStepMutates ==
    [][/\ board' # board => \E t \in Threads : Assigns(t)
       /\ \A t \in Threads :
             ReadOnlyStep(t) => \A l \in Location : At(board', l) = At(board, l)
       /\ \A t \in Threads :
             AnswersGameAgain(t) =>
                 /\ resp'[t].status = 200
                 /\ Len(resp'[t].squares) = N * N
                 /\ resp'[t].squares = resp[t].squares]_vars

\* two /game requests were answered one after the other, with the same board
C13_Witness ==
    \E t \in Threads :
        /\ served = 2
        /\ pc[t] = "accept"
        /\ path[t] = "/game"
        /\ err[t] = ""
        /\ committed = {Board_new}
        /\ resp[t].status = 200
        /\ resp[t].squares = board_as_str(Board_new)

\* the integers a client names squares by
SquareNumbers == 0 .. (N * N - 1)

\* the codes of the pieces: a colour letter followed by a type letter
PieceCodes == {c \o k : c \in {"w", "b"}, k \in {"P", "B", "N", "R", "Q", "K"}}

\* thread t has written the board and is back at the head of the loop
SentBoard(t) == pc[t] = "accept" /\ resp[t].status = 200

\* C14: a board answer has 64 entries; entry n is the code of the cell at
\* file n % 8, rank n / 8, the square a move argument n names: the empty
\* marker when the cell is empty, else a colour letter and a type letter; and
\* the answer to an accepted move from=a, to=b has the code of the moved
\* piece at entry b and the empty marker at entry a.
C14_RowMajorEntries ==
    \A t \in Threads :
        SentBoard(t) =>
            /\ Len(resp[t].squares) = N * N
            /\ \A n \in SquareNumbers :
                  LET cell == At(board, [x |-> n % N, y |-> n \div N])
                      entry == resp[t].squares[n + 1]
                  IN /\ cell = At(board, location_from_string(n))
                     /\ cell = NoPiece => entry = ""
                     /\ cell \in Pieces =>
                           /\ entry \in PieceCodes
                           /\ entry = cell_as_str(cell)
                           /\ (cell.color = "White") <=> (entry \in {"w" \o k : k \in {"P", "B", "N", "R", "Q", "K"}})
            /\ path[t] = "/move" =>
                  /\ piece[t] \in Pieces
                  /\ \A a \in SquareNumbers :
                        location_from_string(a) = req[t].from => resp[t].squares[a + 1] = ""
                  /\ \A b \in SquareNumbers :
                        location_from_string(b) = req[t].to =>
                            resp[t].squares[b + 1] = cell_as_str(piece[t])

\* the answer to /move?from=52&to=36 on the initial board: the black pawn's
\* code at entry 36, the empty marker at entry 52
C14_Witness ==
    \E t \in Threads :
        /\ SentBoard(t)
        /\ path[t] = "/move"
        /\ req[t] = [from |-> location_from_string(52), to |-> location_from_string(36)]
        /\ resp[t].squares[36 + 1] = "bP"
        /\ resp[t].squares[52 + 1] = ""
        /\ resp[t].squares[0 + 1] = "wR"

(***************************************************************************)
(* SpecGame: the boards the calls of Board::step lead to from the initial  *)
(* board.  Every call main makes is a call step(from, to) on its one       *)
(* board; here from and to range over eleven squares, with no bound on the *)
(* number of calls.  A call that returns an error leaves the state as it   *)
(* is.                                                                     *)
(***************************************************************************)

\* the arguments drawn: a1, b1, e1, a2, a3, c3, a4, b4, e5, e7, f8
GameNumbers == {0, 1, 4, 8, 16, 18, 24, 25, 36, 52, 61}

GameSquares == {location_from_string(n) : n \in GameNumbers}

InitGame ==
    /\ CoreIdle
    /\ WalkIdle
    /\ ServerIdle
    /\ phase = "game"

\* board.step(from, to), as main calls it for a /move request
Play(from, to) ==
    /\ board' = step(board, from, to).board
    /\ UNCHANGED << prev, call, sel, vm, phase >>
    /\ UNCHANGED walkVars
    /\ UNCHANGED serverVars

NextGame == \E from \in GameSquares, to \in GameSquares : Play(from, to)

SpecGame == InitGame /\ [][NextGame]_vars

\* the number of cells of b that hold the piece p
Count(b, p) == Cardinality({l \in Location : At(b, l) = p})

\* the number of pieces of each type and colour Board::new sets up
InitialCounts == [p \in Pieces |-> Count(Board_new, p)]

\* the number of cells of b that hold a piece
Total(b) == Cardinality({l \in Location : At(b, l) # NoPiece})

\* C15: on every board reached from the initial board each cell holds one
\* piece or none, there is at most one king of each colour and, of every
\* type and colour, at most as many pieces as on the initial board; and a
\* call of Board::step that changes the board creates no piece of any type
\* and colour and removes at most one piece.
C15_NoPieceCreated ==
    /\ [](/\ \A l \in Location : At(board, l) \in Pieces \cup {NoPiece}
          /\ \A c \in Colors : Count(board, Piece("King", c)) <= 1
          /\ \A p \in Pieces : Count(board, p) <= InitialCounts[p])
    /\ [][board' # board =>
              /\ \A p \in Pieces : Count(board', p) <= Count(board, p)
              /\ Total(board') \in {Total(board) - 1, Total(board)}]_vars

\* two moves have each captured a piece: the board holds two pieces fewer
\* than the initial board
C15_Witness ==
    /\ Total(board) = Total(Board_new) - 2
    /\ \E p \in Pieces : Count(board, p) < InitialCounts[p]

\* the strategies a and b walk along the same half-line
SameRay(a, b) ==
    /\ a.dx * b.dy = a.dy * b.dx
    /\ a.dx * b.dx + a.dy * b.dy > 0

\* C16: the list valid_moves returns holds no coordinate twice and does not
\* hold the square of the piece; and no two strategies of the piece walk
\* along the same half-line.
C16_NoRepeatedDestination ==
    Computed =>
        /\ \A i \in DOMAIN vm : \A j \in (i + 1) .. Len(vm) : vm[i] # vm[j]
        /\ sel \notin Dests
        /\ LET ss == strategies(Mover, sel)
           IN \A i \in DOMAIN ss : \A j \in DOMAIN ss :
                 i # j => (~SameRay(ss[i], ss[j]) /\ (ss[i].dx # 0 \/ ss[i].dy # 0))

\* a queen on d4 with one other piece on the board and a list of 27
\* destinations: the other piece is of the other colour, on one of her rays
C16_Witness ==
    /\ Computed
    /\ Mover.tpe = "Queen"
    /\ sel = D4
    /\ ~Alone
    /\ Len(vm) = 27
    /\ \E d \in Dests : Occupied(d)

\* the board holds no king of colour c
KingMissing(c) == \A l \in Location : At(board, l) # Piece("King", c)

\* the list valid_moves returns for the piece on l
MovesAt(l) == valid_moves(At(board, l), board, l)

\* the squares that hold a piece with a destination to go to
Movable == {l \in Location : At(board, l) \in Pieces /\ MovesAt(l) # << >>}

\* C17: on every board reached from the initial board, Board::step accepts
\* the move of every piece, of either colour, to every one of its
\* destinations, whatever stands there and whoever moved before; when a king
\* stands there it is a king of the other colour and it is gone from the
\* board the call leaves; and while a colour has no king there still are
\* pieces with destinations.
C17_KingCapturable ==
    /\ \A l \in Location :
          At(board, l) \in Pieces =>
              \A d \in Range(MovesAt(l)) :
                  /\ StepCheck(board, l, d) = "Ok"
                  /\ At(board, d).tpe = "King" =>
                        /\ At(board, d).color # At(board, l).color
                        /\ At(step(board, l, d).board, d) = At(board, l)
    /\ (\E c \in Colors : KingMissing(c)) => Movable # {}

\* the board that four black moves in a row lead to, with no white move
\* between them: the bishop of f8 took the white king on e1 and has moved on
\* to b4; there is no white king, e1 is empty, and every other white piece
\* stands where Board::new put it
C17_Witness ==
    /\ KingMissing("White")
    /\ At(board, Loc(4, 0)) = NoPiece
    /\ At(board, Loc(1, 3)) = Piece("Bishop", "Black")
    /\ \A l \in Location \ {Loc(4, 0)} :
          At(Board_new, l).color = "White" => At(board, l) = At(Board_new, l)

\* the direction in which the pawns of colour c advance
Forward(c) == IF c = "White" THEN 1 ELSE 0 - 1

\* the rank on which Board::new puts the pawns of colour c
PawnRank(c) == IF c = "White" THEN 1 ELSE N - 2

\* the rank on which Board::new puts the other pieces of colour c
BackRank(c) == IF c = "White" THEN 0 ELSE N - 1

\* the ranks of file x on which a pawn of colour c stands
PawnsOnFile(x, c) == {y \in Coords : At(board, Loc(x, y)) = Piece("Pawn", c)}

\* C18: on every board reached from the initial board, every destination of
\* a pawn is on the pawn's file, one rank ahead of it in its colour's
\* direction, or one or two ranks ahead when the pawn stands on the rank
\* Board::new put it on; each file holds at most one pawn of each colour;
\* and no pawn stands on the back rank of its colour.
C18_PawnsKeepFile ==
    /\ \A l \in Location :
          At(board, l).tpe = "Pawn" =>
              LET p == At(board, l)
              IN \A d \in Range(MovesAt(l)) :
                    /\ d.x = l.x
                    /\ (d.y - l.y) * Forward(p.color) \in
                           (IF l.y = PawnRank(p.color) THEN {1, 2} ELSE {1})
    /\ \A x \in Coords : \A c \in Colors :
          /\ Cardinality(PawnsOnFile(x, c)) <= 1
          /\ At(board, Loc(x, BackRank(c))) # Piece("Pawn", c)

\* a white pawn has advanced two ranks to a4 and a black pawn two ranks to
\* e5; each has the one square ahead of it as its only destination
C18_Witness ==
    /\ At(board, Loc(0, 3)) = Piece("Pawn", "White")
    /\ At(board, Loc(4, 4)) = Piece("Pawn", "Black")
    /\ At(board, Loc(0, 1)) = NoPiece
    /\ At(board, Loc(4, 6)) = NoPiece
    /\ MovesAt(Loc(0, 3)) = << Loc(0, 4) >>
    /\ MovesAt(Loc(4, 4)) = << Loc(4, 3) >>

====
